---- MODULE Spec2Model ----
(***************************************************************************)
(* Stalemate placement engine (martin): a model of stalemate.cpp.          *)
(*                                                                         *)
(* The global 8x8 board, the piece vector, the result map                  *)
(* Map<char, Vector<GridLocation>>, the exclusion set and the recursion of *)
(* placePieceGreedy (as an explicit stack of frames) are the state.        *)
(* Pieces are the characters of the source, written as one-letter strings: *)
(* "K" king, "Q" queen, "R" rook, "B" bishop, "H" knight, "E" empty cell.  *)
(* Vectors are sequences; the source's 0-based indices are kept and        *)
(* translated by At / RemoveAt / SetAt.                                    *)
(***************************************************************************)
EXTENDS Integers, Sequences, FiniteSets, TLC

VARIABLES
    board,      \* _board: the global Grid<char>
    kingLoc,    \* the opponent king's square
    pieces,     \* the Vector<char> the running function works on
    input,      \* the piece vector as the caller passed it (never written after Init)
    result,     \* Map<char, Vector<GridLocation>> result
    exclusion,  \* Set<GridLocation> exclusion / exclusionLocs
    moves,      \* pieceBestLocs
    stack,      \* frames of placePieceGreedy, innermost last
    ret,        \* value returned by the frame that has just returned
    phase,      \* position of the running function
    alt,        \* TRUE: calculateStalemateAlternative, FALSE: calculateStalemate
    probe,      \* the arguments of the last call of pieceAttackingLocs made on its own
    attacked    \* the set that call returned

vars == <<board, kingLoc, pieces, input, result, exclusion, moves, stack, ret, phase, alt,
          probe, attacked>>

(***************************************************************************)
(* Board Model                                                             *)
(***************************************************************************)
BoardSize == 8

Coords == 0 .. (BoardSize - 1)

Squares == Coords \X Coords

Kinds == {"K", "Q", "R", "B", "H"}

Empty == "E"

\* Grid<char>(8, 8, 'E')
EmptyBoard == [s \in Squares |-> Empty]

inBounds(loc) == loc[1] \in Coords /\ loc[2] \in Coords

clearBoard == EmptyBoard

\* the character codes that order Vector<char>::sort and Map<char, ...>::keys
Code(p) ==
    CASE p = "B" -> 66
      [] p = "E" -> 69
      [] p = "H" -> 72
      [] p = "K" -> 75
      [] p = "Q" -> 81
      [] p = "R" -> 82

(***************************************************************************)
(* Vector<char> helpers (0-based indices as in the source)                 *)
(***************************************************************************)
At(v, i) == v[i + 1]

InRange(v, i) == i >= 0 /\ i < Len(v)

SetAt(v, i, x) == [v EXCEPT ![i + 1] = x]

RemoveAt(v, i) == SubSeq(v, 1, i) \o SubSeq(v, i + 2, Len(v))

InsertFront(v, x) == <<x>> \o v

RECURSIVE IndexFrom(_, _, _)
IndexFrom(v, x, i) ==
    IF i >= Len(v) THEN -1
    ELSE IF At(v, i) = x THEN i
    ELSE IndexFrom(v, x, i + 1)

\* Vector::indexOf: first index holding x, -1 when absent
IndexOf(v, x) == IndexFrom(v, x, 0)

RECURSIVE InsertSorted(_, _)
InsertSorted(v, x) ==
    IF v = <<>> THEN <<x>>
    ELSE IF Code(x) < Code(Head(v)) THEN <<x>> \o v
    ELSE <<Head(v)>> \o InsertSorted(Tail(v), x)

RECURSIVE SortAsc(_)
\* Vector::sort: ascending character code
SortAsc(v) == IF v = <<>> THEN <<>> ELSE InsertSorted(SortAsc(Tail(v)), Head(v))

RECURSIVE Reverse(_)
Reverse(v) == IF v = <<>> THEN <<>> ELSE Reverse(Tail(v)) \o <<Head(v)>>

Count(v, x) == Cardinality({i \in 1 .. Len(v) : v[i] = x})

(***************************************************************************)
(* Map<char, Vector<GridLocation>> helpers: a function whose domain is the *)
(* key set; operator[] on a missing key inserts an empty vector.           *)
(***************************************************************************)
EmptyMap == [k \in {} |-> <<>>]

Touch(m, k) == IF k \in DOMAIN m THEN m ELSE [x \in (DOMAIN m) \cup {k} |-> IF x = k THEN <<>> ELSE m[x]]

MapAdd(m, k, loc) == [Touch(m, k) EXCEPT ![k] = Append(@, loc)]

\* mutant: the undo removes the first square recorded under the kind
MapRemoveFirst(m, k) == [m EXCEPT ![k] = Tail(@)]

MapRemoveLast(m, k) == [m EXCEPT ![k] = SubSeq(@, 1, Len(@) - 1)]

RECURSIVE KeysOfSet(_)
KeysOfSet(S) ==
    IF S = {} THEN <<>>
    ELSE LET k == CHOOSE a \in S : \A b \in S : Code(a) <= Code(b)
         IN  <<k>> \o KeysOfSet(S \ {k})

\* Map::keys(): the keys in ascending order
Keys(m) == KeysOfSet(DOMAIN m)

\* every square held under any key
SquaresOf(m) == UNION {{m[k][i] : i \in 1 .. Len(m[k])} : k \in DOMAIN m}

\* the (kind, square) pairs held
PairsOf(m) == UNION {{<<k, m[k][i]>> : i \in 1 .. Len(m[k])} : k \in DOMAIN m}

\* number of squares held, counting repetitions
SizeOf(m) == LET RECURSIVE Sum(_)
                 Sum(S) == IF S = {} THEN 0
                           ELSE LET k == CHOOSE a \in S : TRUE IN Len(m[k]) + Sum(S \ {k})
             IN  Sum(DOMAIN m)

(***************************************************************************)
(* Adjacency Calculator                                                    *)
(***************************************************************************)
Offsets == {-1, 0, 1}

\* getAdjacentLocs: the square and its in-bounds neighbours
getAdjacentLocs(loc) ==
    {<<loc[1] + i, loc[2] + j>> : i \in Offsets, j \in Offsets} \cap Squares

(***************************************************************************)
(* Attack Calculator: every operator reads the board b (the global _board) *)
(***************************************************************************)
RookDirs == <<<<1, 0>>, <<0, 1>>, <<-1, 0>>, <<0, -1>>>>

BishopDirs == <<<<1, 1>>, <<-1, -1>>, <<1, -1>>, <<-1, 1>>>>

KnightDirs == <<<<1, 2>>, <<2, 1>>, <<1, -2>>, <<2, -1>>, <<-1, 2>>, <<-2, 1>>, <<-1, -2>>, <<-2, -1>>>>

Step(loc, dir) == <<loc[1] + dir[1], loc[2] + dir[2]>>

RECURSIVE WalkOntoBlocker(_, _, _)
\* mutant: the first occupied square is added before the ray stops
WalkOntoBlocker(b, loc, dir) ==
    IF ~inBounds(loc) THEN {}
    ELSE IF b[loc] = Empty THEN {loc} \cup WalkOntoBlocker(b, Step(loc, dir), dir)
    ELSE {loc}

RECURSIVE Walk(_, _, _)
\* the while loop of rowAttackingLocs / diagonalAttackingLocs, from loc onwards
Walk(b, loc, dir) ==
    IF inBounds(loc) /\ b[loc] = Empty
    THEN {loc} \cup Walk(b, Step(loc, dir), dir)
    ELSE {}

WalkAll(b, pieceLoc, dirs) ==
    UNION {Walk(b, Step(pieceLoc, dirs[d]), dirs[d]) : d \in DOMAIN dirs}

rowAttackingLocs(b, locs, pieceLoc) == locs \cup WalkAll(b, pieceLoc, RookDirs)

diagonalAttackingLocs(b, locs, pieceLoc) == locs \cup WalkAll(b, pieceLoc, BishopDirs)

kingAttackingLocs(b, pieceLoc) ==
    {loc \in {<<pieceLoc[1] + i, pieceLoc[2] + j>> : i \in Offsets, j \in Offsets} :
        inBounds(loc) /\ b[loc] = Empty /\ loc # pieceLoc}

\* mutant: a knight attacks only empty squares, as the king does
knightAttackingLocsEmptyOnly(b, pieceLoc) ==
    {loc \in {Step(pieceLoc, KnightDirs[d]) : d \in DOMAIN KnightDirs} :
        inBounds(loc) /\ b[loc] = Empty}

knightAttackingLocs(b, pieceLoc) ==
    {loc \in {Step(pieceLoc, KnightDirs[d]) : d \in DOMAIN KnightDirs} : inBounds(loc)}

\* pieceAttackingLocs; any other character raises error() in the source, and
\* no caller of the model passes one
pieceAttackingLocs(b, piece, pieceLoc) ==
    CASE piece = "K" -> kingAttackingLocs(b, pieceLoc)
      [] piece = "Q" -> diagonalAttackingLocs(b, rowAttackingLocs(b, {}, pieceLoc), pieceLoc)
      [] piece = "R" -> rowAttackingLocs(b, {}, pieceLoc)
      [] piece = "H" -> knightAttackingLocs(b, pieceLoc)
      [] piece = "B" -> diagonalAttackingLocs(b, {}, pieceLoc)

removeAttackedLocs(b, kingAdjacentLocs, piece, pieceLoc) ==
    kingAdjacentLocs \ pieceAttackingLocs(b, piece, pieceLoc)

(***************************************************************************)
(* Stalemate Validator                                                     *)
(***************************************************************************)
RECURSIVE RemoveVector(_, _, _, _)
\* the inner loop of isStalemate over one key's vector
RemoveVector(b, adjacentLocs, piece, locs) ==
    IF locs = <<>> THEN adjacentLocs
    ELSE RemoveVector(b, removeAttackedLocs(b, adjacentLocs, piece, Head(locs)), piece, Tail(locs))

RECURSIVE RemoveKeys(_, _, _, _)
\* the outer loop of isStalemate over pieceLocs.keys()
RemoveKeys(b, adjacentLocs, pieceLocs, keys) ==
    IF keys = <<>> THEN adjacentLocs
    ELSE RemoveKeys(b, RemoveVector(b, adjacentLocs, Head(keys), pieceLocs[Head(keys)]),
                    pieceLocs, Tail(keys))

\* adjacentLocs as isStalemate holds it when its loops are over
remainingLocs(b, king, pieceLocs) ==
    RemoveKeys(b, getAdjacentLocs(king), pieceLocs, Keys(pieceLocs))

\* mutant: the remaining square is not required to be the king's
stalemateTestSizeOnly(adjacentLocs, king) == Cardinality(adjacentLocs) = 1

stalemateTest(adjacentLocs, king) == Cardinality(adjacentLocs) = 1 /\ king \in adjacentLocs

isStalemate(b, king, pieceLocs) == stalemateTest(remainingLocs(b, king, pieceLocs), king)

(***************************************************************************)
(* Candidate Ranker                                                        *)
(***************************************************************************)
\* mutant: every attacked square is counted, adjacent to the king or not
numAttackingAll(b, piece, loc, adjacents) == Cardinality(pieceAttackingLocs(b, piece, loc))

numAttackingAdjacent(b, piece, loc, adjacents) ==
    Cardinality(adjacents) - Cardinality(adjacents \ pieceAttackingLocs(b, piece, loc))

RECURSIVE GreedyCols(_, _, _, _, _, _)
\* the inner loop "for j" of greedyHelper in row i from column j on; acc holds
\* the locals best and result
GreedyCols(b, piece, adjacents, i, j, acc) ==
    IF j >= BoardSize THEN acc
    ELSE IF <<i, j>> \in adjacents THEN GreedyCols(b, piece, adjacents, i, j + 1, acc)
    ELSE LET score == numAttackingAdjacent(b, piece, <<i, j>>, adjacents)
         IN  IF score > acc.best
             THEN GreedyCols(b, piece, adjacents, i, j + 1, [best |-> score, result |-> <<<<i, j>>>>])
             ELSE IF score = acc.best
             THEN GreedyCols(b, piece, adjacents, i, j + 1, [acc EXCEPT !.result = Append(@, <<i, j>>)])
             ELSE GreedyCols(b, piece, adjacents, i, j + 1, acc)

RECURSIVE GreedyRows(_, _, _, _, _)
\* the outer loop "for i" of greedyHelper from row i on
GreedyRows(b, piece, adjacents, i, acc) ==
    IF i >= BoardSize THEN acc
    ELSE GreedyRows(b, piece, adjacents, i + 1, GreedyCols(b, piece, adjacents, i, 0, acc))

\* mutant: only the first square reaching the maximum is kept (ties dropped)
greedyHelperFirstOnly(b, piece, adjacents) ==
    SubSeq(GreedyRows(b, piece, adjacents, 0, [best |-> 0, result |-> <<>>]).result, 1, 1)

greedyHelper(b, piece, adjacents) ==
    GreedyRows(b, piece, adjacents, 0, [best |-> 0, result |-> <<>>]).result

\* the loop "for (char i : pieces) pieceBestLocs[i] = greedyHelper(i, adjacentLocs)"
bestLocsFor(b, v, adjacents) ==
    [k \in {v[i] : i \in DOMAIN v} |-> greedyHelper(b, k, adjacents)]

(***************************************************************************)
(* Sort/Prioritizer.  A vector operation outside the valid index range     *)
(* raises the library's error(); err records it and v is the vector as the *)
(* exception leaves it.                                                    *)
(***************************************************************************)
RECURSIVE SortLoop(_, _, _)
\* for (int i = 0; i < index && index != -1; i++) { pieces[index + i] = 'R'; pieces[i] = 'Q'; }
SortLoop(v, i, index) ==
    IF ~(i < index /\ index # -1) THEN [v |-> v, err |-> FALSE]
    ELSE IF ~InRange(v, index + i) THEN [v |-> v, err |-> TRUE]
    ELSE SortLoop(SetAt(SetAt(v, index + i, "R"), i, "Q"), i + 1, index)

sort(v) ==
    IF ~InRange(v, 0) THEN [v |-> v, err |-> TRUE]
    ELSE LET king     == At(v, 0)
             rest     == Reverse(SortAsc(RemoveAt(v, 0)))
             relabel  == SortLoop(rest, 0, IndexOf(rest, "Q"))
         IN  IF relabel.err THEN relabel
             ELSE [v |-> InsertFront(relabel.v, king), err |-> FALSE]

(***************************************************************************)
(* Leftover Placement & Cleanup                                            *)
(***************************************************************************)
RECURSIVE RemoveTimes(_, _, _)
\* for (int j = 0; j < result[i].size(); j++) pieces.remove(index);
RemoveTimes(v, index, times) ==
    IF times = 0 THEN [v |-> v, err |-> FALSE]
    ELSE IF ~InRange(v, index) THEN [v |-> v, err |-> TRUE]
    ELSE RemoveTimes(RemoveAt(v, index), index, times - 1)

RECURSIVE RemoveForKeys(_, _, _)
\* for (char i : result.keys()) { int index = pieces.indexOf(i); ... }
RemoveForKeys(v, m, keys) ==
    IF keys = <<>> THEN [v |-> v, err |-> FALSE]
    ELSE LET r == RemoveTimes(v, IndexOf(v, Head(keys)), Len(m[Head(keys)]))
         IN  IF r.err THEN r ELSE RemoveForKeys(r.v, m, Tail(keys))

\* mutant: the vector is not sorted before the removals
removeUsedPiecesUnsorted(v, m) == RemoveForKeys(v, m, Keys(m))

removeUsedPieces(v, m) == RemoveForKeys(SortAsc(v), m, Keys(m))

notAttackingKing(b, piece, loc, king) ==
    LET adjacents == getAdjacentLocs(king)
        attacking == pieceAttackingLocs(b, piece, loc)
    IN  adjacents = adjacents \ attacking

RECURSIVE UselessCols(_, _, _, _, _)
\* the inner loop "for j" of placeUselessPieces in row i from column j on; st
\* holds the board, the result, the piece in hand, the vector, and whether
\* the function has returned
UselessCols(st, excl, king, i, j) ==
    IF j >= BoardSize \/ st.returned THEN st
    ELSE IF notAttackingKing(st.board, st.piece, <<i, j>>, king) /\ <<i, j>> \notin excl
    THEN LET placed == [st EXCEPT !.result = MapAdd(@, st.piece, <<i, j>>),
                                  !.board = [@ EXCEPT ![<<i, j>>] = st.piece]]
         IN  IF Len(st.v) = 0
             THEN [placed EXCEPT !.returned = TRUE]
             ELSE UselessCols([placed EXCEPT !.piece = At(st.v, 0), !.v = RemoveAt(st.v, 0)],
                              excl, king, i, j + 1)
    ELSE UselessCols(st, excl, king, i, j + 1)

RECURSIVE UselessRows(_, _, _, _)
\* the outer loop "for i" of placeUselessPieces from row i on
UselessRows(st, excl, king, i) ==
    IF i >= BoardSize \/ st.returned THEN st
    ELSE UselessRows(UselessCols(st, excl, king, i, 0), excl, king, i + 1)

placeUselessPieces(b, m, v, excl, king) ==
    IF Len(v) = 0 THEN [board |-> b, result |-> m]
    ELSE LET st == UselessRows([board |-> b, result |-> m, piece |-> At(v, 0),
                                v |-> RemoveAt(v, 0), returned |-> FALSE], excl, king, 0)
         IN  [board |-> st.board, result |-> st.result]

\* mutant: the squares of the placed pieces are not added
calculateExclusionAdjacentOnly(king, m) == getAdjacentLocs(king)

calculateExclusion(king, m) == getAdjacentLocs(king) \cup SquaresOf(m)

(***************************************************************************)
(* Inputs                                                                  *)
(***************************************************************************)
\* most attacking pieces that follow the King in a piece list of Spec
MaxPieces == 2

Attackers == {"Q", "R", "B", "H"}

\* piece lists: King first, then at most n attacking pieces in any order
PieceLists(n) == {<<"K">> \o t : t \in UNION {[1 .. k -> Attackers] : k \in 0 .. n}}

\* initializeBoard: randomInteger(1, 6) for the row and for the column
KingSquares == (1 .. 6) \X (1 .. 6)

\* the king squares of the provided tests
TestedKings == {<<1, 1>>, <<2, 1>>}

\* generatePieces, n == 2: the two-piece lists
TwoPieces == {<<"K", "Q", "Q">>, <<"K", "Q", "B">>}

\* a list generatePieces(5) can return, on a square initializeBoard can return
LeftoverConfigs == {<<<<1, 5>>, <<"K", "R", "B", "B", "H">>>>}

Configs == (KingSquares \X TwoPieces) \cup (TestedKings \X PieceLists(MaxPieces)) \cup LeftoverConfigs

(***************************************************************************)
(* calculateStalemate / calculateStalemateAlternative, step by step        *)
(***************************************************************************)
\* one call of placePieceGreedy: its pieceIndex, the position i of its loop in
\* moves[pieces[pieceIndex]], where it stands, and the board cells and the
\* (kind, square) pairs of the result as they were when it was entered
Frame(index, b, m) ==
    [pieceIndex |-> index, i |-> 0, at |-> "entry", board0 |-> b, pairs0 |-> PairsOf(m)]

Top == stack[Len(stack)]

Pop == SubSeq(stack, 1, Len(stack) - 1)

SetTop(f) == [stack EXCEPT ![Len(stack)] = f]

\* the piece and the candidate square the innermost frame is at
TopPiece == At(pieces, Top.pieceIndex)

TopLoc == At(moves[TopPiece], Top.i)

\* no call of pieceAttackingLocs on its own has been made
NoProbe == [piece |-> Empty, loc |-> <<0, 0>>]

Init ==
    /\ \E cfg \in Configs : kingLoc = cfg[1] /\ input = cfg[2]
    /\ alt \in BOOLEAN
    /\ board = [EmptyBoard EXCEPT ![kingLoc] = "K"]
    /\ pieces = input
    /\ result = EmptyMap
    /\ exclusion = {}
    /\ moves = EmptyMap
    /\ stack = <<>>
    /\ ret = "none"
    /\ phase = "start"
    /\ probe = NoProbe
    /\ attacked = {}

\* the function up to its call of placePieceGreedy(pieces, 0, ...)
Begin ==
    /\ phase = "start"
    /\ LET s == IF alt THEN sort(pieces) ELSE [v |-> pieces, err |-> FALSE]
       IN  /\ pieces' = s.v
           /\ IF s.err
              THEN /\ phase' = "error"
                   /\ UNCHANGED <<exclusion, result, moves, stack>>
              ELSE /\ phase' = "search"
                   /\ exclusion' = getAdjacentLocs(kingLoc)
                   /\ result' = EmptyMap
                   /\ moves' = bestLocsFor(board, s.v, getAdjacentLocs(kingLoc))
                   /\ stack' = <<Frame(0, board, EmptyMap)>>
    /\ UNCHANGED <<board, kingLoc, input, ret, alt, probe, attacked>>

\* placePieceGreedy: the two tests at the head of a call
Enter ==
    /\ phase = "search" /\ stack # <<>> /\ Top.at = "entry"
    /\ IF isStalemate(board, kingLoc, result)
       THEN stack' = Pop /\ ret' = "true"
       ELSE IF Top.pieceIndex > Len(pieces) - 1
       THEN stack' = Pop /\ ret' = "false"
       ELSE stack' = SetTop([Top EXCEPT !.at = "loop"]) /\ ret' = "none"
    /\ UNCHANGED <<board, kingLoc, pieces, input, result, exclusion, moves, phase, alt, probe, attacked>>

\* mutant: the placed square is not added to the exclusion set
TryCandidateKeepsExclusion ==
    /\ phase = "search" /\ stack # <<>> /\ Top.at = "loop"
    /\ Top.i < Len(moves[TopPiece])
    /\ IF TopLoc \notin exclusion
       THEN /\ board' = [board EXCEPT ![TopLoc] = TopPiece]
            /\ result' = MapAdd(result, TopPiece, TopLoc)
            /\ stack' = Append(SetTop([Top EXCEPT !.at = "called"]), Frame(Top.pieceIndex + 1, board', result'))
            /\ UNCHANGED exclusion
       ELSE /\ stack' = SetTop([Top EXCEPT !.i = @ + 1])
            /\ UNCHANGED <<board, result, exclusion>>
    /\ UNCHANGED <<kingLoc, pieces, input, moves, ret, phase, alt, probe, attacked>>

\* placePieceGreedy: one turn of the for loop up to the recursive call
TryCandidate ==
    /\ phase = "search" /\ stack # <<>> /\ Top.at = "loop"
    /\ Top.i < Len(moves[TopPiece])
    /\ IF TopLoc \notin exclusion
       THEN /\ board' = [board EXCEPT ![TopLoc] = TopPiece]
            /\ result' = MapAdd(result, TopPiece, TopLoc)
            /\ exclusion' = exclusion \cup {TopLoc}
            /\ stack' = Append(SetTop([Top EXCEPT !.at = "called"]), Frame(Top.pieceIndex + 1, board', result'))
       ELSE /\ stack' = SetTop([Top EXCEPT !.i = @ + 1])
            /\ UNCHANGED <<board, result, exclusion>>
    /\ UNCHANGED <<kingLoc, pieces, input, moves, ret, phase, alt, probe, attacked>>

\* mutant: the undo takes the square out of the result and leaves the piece
\* on the board
BacktrackKeepsCell ==
    /\ phase = "search" /\ stack # <<>> /\ Top.at = "called" /\ ret = "false"
    /\ result' = MapRemoveLast(result, TopPiece)
    /\ stack' = SetTop([Top EXCEPT !.i = @ + 1, !.at = "loop"])
    /\ ret' = "none"
    /\ UNCHANGED <<board, kingLoc, pieces, input, exclusion, moves, phase, alt, probe, attacked>>

\* placePieceGreedy: the recursive call returned false; undo and go on
Backtrack ==
    /\ phase = "search" /\ stack # <<>> /\ Top.at = "called" /\ ret = "false"
    /\ board' = [board EXCEPT ![TopLoc] = Empty]
    /\ result' = MapRemoveLast(result, TopPiece)
    /\ stack' = SetTop([Top EXCEPT !.i = @ + 1, !.at = "loop"])
    /\ ret' = "none"
    /\ UNCHANGED <<kingLoc, pieces, input, exclusion, moves, phase, alt, probe, attacked>>

\* mutant: the placement is undone before true is returned
PropagateUndoes ==
    /\ phase = "search" /\ stack # <<>> /\ Top.at = "called" /\ ret = "true"
    /\ board' = [board EXCEPT ![TopLoc] = Empty]
    /\ result' = MapRemoveLast(result, TopPiece)
    /\ stack' = Pop
    /\ UNCHANGED <<kingLoc, pieces, input, exclusion, moves, ret, phase, alt, probe, attacked>>

\* placePieceGreedy: the recursive call returned true; return true
Propagate ==
    /\ phase = "search" /\ stack # <<>> /\ Top.at = "called" /\ ret = "true"
    /\ stack' = Pop
    /\ UNCHANGED <<board, kingLoc, pieces, input, result, exclusion, moves, ret, phase, alt, probe, attacked>>

\* placePieceGreedy: the loop is over; recompute the exclusion, return false
Exhaust ==
    /\ phase = "search" /\ stack # <<>> /\ Top.at = "loop"
    /\ Top.i >= Len(moves[TopPiece])
    /\ exclusion' = calculateExclusion(kingLoc, result)
    /\ stack' = Pop
    /\ ret' = "false"
    /\ UNCHANGED <<board, kingLoc, pieces, input, result, moves, phase, alt, probe, attacked>>

\* after the search: calculateExclusion and removeUsedPieces
Cleanup ==
    /\ phase = "search" /\ stack = <<>>
    /\ exclusion' = calculateExclusion(kingLoc, result)
    /\ LET r == removeUsedPieces(pieces, result)
       IN  pieces' = r.v /\ phase' = IF r.err THEN "error" ELSE "leftover"
    /\ UNCHANGED <<board, kingLoc, input, result, moves, stack, ret, alt, probe, attacked>>

\* placeUselessPieces, and the return of the result
PlaceUseless ==
    /\ phase = "leftover"
    /\ LET r == placeUselessPieces(board, result, pieces, exclusion, kingLoc)
       IN  board' = r.board /\ result' = r.result
    /\ phase' = "done"
    /\ UNCHANGED <<kingLoc, pieces, input, exclusion, moves, stack, ret, alt, probe, attacked>>

Next ==
    \/ Begin
    \/ Enter
    \/ TryCandidate
    \/ Backtrack
    \/ Propagate
    \/ Exhaust
    \/ Cleanup
    \/ PlaceUseless

Spec == Init /\ [][Next]_vars

(***************************************************************************)
(* SpecLists: sort and removeUsedPieces applied on their own to a piece    *)
(* vector and a partial result, as the provided tests "Sort" and           *)
(* "removedUsedPieces" do.                                                 *)
(***************************************************************************)
\* most attacking pieces that follow the King in a piece list of SpecLists
MaxListLen == 4

\* rank of a kind in key order, used to give every recorded piece its own square
Rank(k) == Cardinality({x \in Kinds : Code(x) < Code(k)})

idle == /\ board = clearBoard /\ kingLoc = <<1, 1>> /\ exclusion = {} /\ moves = EmptyMap
        /\ stack = <<>> /\ ret = "none" /\ alt = FALSE /\ probe = NoProbe /\ attacked = {}

InitLists ==
    /\ input \in PieceLists(MaxListLen)
    /\ pieces = input
    /\ result = EmptyMap
    /\ phase = "list"
    /\ idle

\* result[kind].add(loc) for a piece of the list not yet in the result
Record(kind) ==
    /\ phase = "list"
    /\ Count(pieces, kind) > Len(Touch(result, kind)[kind])
    /\ result' = MapAdd(result, kind, <<Rank(kind), Len(Touch(result, kind)[kind])>>)
    /\ UNCHANGED <<board, kingLoc, pieces, input, exclusion, moves, stack, ret, phase, alt,
                   probe, attacked>>

\* result[kind] read through operator[]: the key now exists, with an empty vector
Visit(kind) ==
    /\ phase = "list"
    /\ kind \notin DOMAIN result
    /\ result' = Touch(result, kind)
    /\ UNCHANGED <<board, kingLoc, pieces, input, exclusion, moves, stack, ret, phase, alt,
                   probe, attacked>>

CallSort ==
    /\ phase = "list" /\ result = EmptyMap
    /\ LET r == sort(pieces)
       IN  pieces' = r.v /\ phase' = IF r.err THEN "sortError" ELSE "sorted"
    /\ UNCHANGED <<board, kingLoc, input, result, exclusion, moves, stack, ret, alt,
                   probe, attacked>>

CallRemove ==
    /\ phase = "list"
    /\ LET r == removeUsedPieces(pieces, result)
       IN  pieces' = r.v /\ phase' = IF r.err THEN "removeError" ELSE "removed"
    /\ UNCHANGED <<board, kingLoc, input, result, exclusion, moves, stack, ret, alt,
                   probe, attacked>>

NextLists ==
    \/ \E kind \in Kinds : Record(kind)
    \/ \E kind \in Kinds : Visit(kind)
    \/ CallSort
    \/ CallRemove

SpecLists == InitLists /\ [][NextLists]_vars

(***************************************************************************)
(* SpecValidator: isStalemate called on its own, as the provided tests do, *)
(* on boards the program's writes produce: the king written on its square  *)
(* or not, pieces written and recorded, the board cleared in between.      *)
(***************************************************************************)
\* most pieces recorded in the result of SpecValidator
MaxPlaced == 2

\* king squares: a corner (test getAdjacentLocs) and the tested square (1,1)
ValidatorKings == {<<0, 0>>, <<1, 1>>}

\* the squares pieces are written on in SpecValidator
ValidatorSquares == {<<2, 1>>, <<1, 2>>, <<1, 3>>, <<3, 0>>, <<3, 4>>, <<2, 3>>}

InitValidator ==
    /\ board = clearBoard
    /\ kingLoc \in ValidatorKings
    /\ result = EmptyMap
    /\ phase = "validate"
    /\ pieces = <<>> /\ input = <<>> /\ exclusion = {} /\ moves = EmptyMap
    /\ stack = <<>> /\ ret = "none" /\ alt = FALSE /\ probe = NoProbe /\ attacked = {}

\* _board[kingLoc] = 'K'
SetKing ==
    /\ phase = "validate"
    /\ board[kingLoc] # "K"
    /\ board' = [board EXCEPT ![kingLoc] = "K"]
    /\ UNCHANGED <<kingLoc, pieces, input, result, exclusion, moves, stack, ret, phase, alt,
                   probe, attacked>>

\* _board[loc] = piece; result[piece].add(loc)
Put(kind, loc) ==
    /\ phase = "validate"
    /\ SizeOf(result) < MaxPlaced
    /\ loc # kingLoc /\ loc \notin SquaresOf(result)
    /\ board' = [board EXCEPT ![loc] = kind]
    /\ result' = MapAdd(result, kind, loc)
    /\ UNCHANGED <<kingLoc, pieces, input, exclusion, moves, stack, ret, phase, alt,
                   probe, attacked>>

\* clearBoard()
Clear ==
    /\ phase = "validate"
    /\ board # clearBoard
    /\ board' = clearBoard
    /\ UNCHANGED <<kingLoc, pieces, input, result, exclusion, moves, stack, ret, phase, alt,
                   probe, attacked>>

NextValidator ==
    \/ SetKing
    \/ \E kind \in Kinds, loc \in ValidatorSquares : Put(kind, loc)
    \/ Clear

SpecValidator == InitValidator /\ [][NextValidator]_vars

(***************************************************************************)
(* SpecAttack: pieceAttackingLocs called on its own on a board holding a   *)
(* few pieces, as the provided test "pieceAttackingLocs" does.             *)
(***************************************************************************)
\* most occupied cells of a board of SpecAttack
MaxOccupied == 2

\* the squares written and probed in SpecAttack: a lattice of aligned
\* squares and the squares the provided test probes
AttackSquares ==
    ({0, 3, 6} \X {0, 3, 6}) \cup {<<1, 1>>, <<0, 1>>, <<2, 3>>, <<4, 4>>}

\* the characters written on the board of SpecAttack
BlockerKinds == {"K", "Q"}

Occupied(b) == {sq \in Squares : b[sq] # Empty}

InitAttack ==
    /\ board = clearBoard
    /\ phase = "setup"
    /\ probe = NoProbe
    /\ attacked = {}
    /\ kingLoc = <<1, 1>> /\ result = EmptyMap
    /\ pieces = <<>> /\ input = <<>> /\ exclusion = {} /\ moves = EmptyMap
    /\ stack = <<>> /\ ret = "none" /\ alt = FALSE

\* _board[loc] = piece
WriteCell(kind, loc) ==
    /\ phase = "setup"
    /\ board[loc] = Empty
    /\ Cardinality(Occupied(board)) < MaxOccupied
    /\ board' = [board EXCEPT ![loc] = kind]
    /\ UNCHANGED <<kingLoc, pieces, input, result, exclusion, moves, stack, ret, phase, alt,
                   probe, attacked>>

\* locs = pieceAttackingLocs(piece, loc)
CallAttack(kind, loc) ==
    /\ phase = "setup"
    /\ probe' = [piece |-> kind, loc |-> loc]
    /\ attacked' = pieceAttackingLocs(board, kind, loc)
    /\ phase' = "attacked"
    /\ UNCHANGED <<board, kingLoc, pieces, input, result, exclusion, moves, stack, ret, alt>>

NextAttack ==
    \/ \E kind \in BlockerKinds, loc \in AttackSquares : WriteCell(kind, loc)
    \/ \E kind \in Kinds, loc \in AttackSquares : CallAttack(kind, loc)

SpecAttack == InitAttack /\ [][NextAttack]_vars

(***************************************************************************)
(* SpecRanker: greedyHelper called on its own for the adjacency of a king  *)
(* standing on a board that holds a few other pieces, as the provided test *)
(* "greedyHelp" calls it on the board it finds.                            *)
(***************************************************************************)
\* most cells, besides the king square, occupied on a board of SpecRanker
MaxBlockers == 3

\* the king squares of SpecRanker: a corner and the square of the tests
RankerKings == {<<0, 0>>, <<1, 1>>}

\* the cells written in SpecRanker: neighbours of the king squares and
\* squares on the rays towards them
RankerSquares == {<<0, 1>>, <<1, 0>>, <<1, 1>>, <<0, 2>>, <<2, 2>>, <<1, 3>>}

InitRanker ==
    /\ kingLoc \in RankerKings
    /\ board = [clearBoard EXCEPT ![kingLoc] = "K"]
    /\ phase = "setup"
    /\ probe = NoProbe
    /\ moves = EmptyMap
    /\ attacked = {} /\ result = EmptyMap
    /\ pieces = <<>> /\ input = <<>> /\ exclusion = {}
    /\ stack = <<>> /\ ret = "none" /\ alt = FALSE

\* _board[loc] = piece
WriteBlocker(kind, loc) ==
    /\ phase = "setup"
    /\ board[loc] = Empty
    /\ Cardinality(Occupied(board) \ {kingLoc}) < MaxBlockers
    /\ board' = [board EXCEPT ![loc] = kind]
    /\ UNCHANGED <<kingLoc, pieces, input, result, exclusion, moves, stack, ret, phase, alt,
                   probe, attacked>>

\* pieceBestLocs[piece] = greedyHelper(piece, adjacentLocs)
CallGreedy(kind) ==
    /\ phase = "setup"
    /\ probe' = [piece |-> kind, loc |-> kingLoc]
    /\ moves' = [k \in {kind} |-> greedyHelper(board, kind, getAdjacentLocs(kingLoc))]
    /\ phase' = "ranked"
    /\ UNCHANGED <<board, kingLoc, pieces, input, result, exclusion, stack, ret, alt, attacked>>

NextRanker ==
    \/ \E kind \in BlockerKinds, loc \in RankerSquares : WriteBlocker(kind, loc)
    \/ \E kind \in Kinds : CallGreedy(kind)

SpecRanker == InitRanker /\ [][NextRanker]_vars

(***************************************************************************)
(* Properties of a run (Spec)                                              *)
(***************************************************************************)
\* a candidate square is about to be tested against the exclusion set
TestingCandidate ==
    /\ phase = "search" /\ stack # <<>> /\ Top.at = "loop"
    /\ Top.i < Len(moves[TopPiece])

\* a frame of placePieceGreedy has just returned
FrameReturned == phase = "search" /\ ret # "none"

\* C1: with pieces [K,Q,Q] or [K,Q,B] and the king on any square (r,c),
\* r, c in 1..6, of a board otherwise empty, the placement calculateStalemate
\* returns satisfies isStalemate on the board the run leaves.
C1_TwoPiecesStalemate ==
    (phase = "done" /\ ~alt /\ input \in TwoPieces /\ kingLoc \in KingSquares)
        => isStalemate(board, kingLoc, result)

C1_Witness ==
    /\ phase = "done" /\ ~alt /\ input = <<"K", "Q", "B">> /\ kingLoc = <<6, 6>>
    /\ SizeOf(result) = 3
    /\ isStalemate(board, kingLoc, result)

\* C2: leftover placement never undoes a stalemate: if isStalemate holds of
\* the result before placeUselessPieces runs, it holds of the result and the
\* board placeUselessPieces leaves.
C2_LeftoverKeepsStalemate ==
    [][(phase = "leftover" /\ isStalemate(board, kingLoc, result))
        => isStalemate(board', kingLoc', result')]_vars

\* C9: whenever a candidate square is tested against the exclusion set and
\* whenever a frame returns, the exclusion set is the king adjacency united
\* with the squares of the pieces in the result.
C9_ExclusionExact ==
    (TestingCandidate \/ FrameReturned)
        => exclusion = getAdjacentLocs(kingLoc) \cup SquaresOf(result)

\* C10: in every state of a run of calculateStalemate or
\* calculateStalemateAlternative no square is held twice by the result,
\* under one kind or under two.
C10_NoSquareTwice == Cardinality(SquaresOf(result)) = SizeOf(result)

C10_Witness ==
    /\ phase = "done" /\ Cardinality(DOMAIN result) >= 3
    /\ \E k \in DOMAIN result : Len(result[k]) >= 2
    /\ pieces # <<>>

(***************************************************************************)
(* Properties of sort and removeUsedPieces (SpecLists)                     *)
(***************************************************************************)
\* how many squares the result holds for a kind
Held(m, k) == IF k \in DOMAIN m THEN Len(m[k]) ELSE 0

Before(v, a, b) == \A i, j \in 1 .. Len(v) : (v[i] = a /\ v[j] = b) => i < j

\* C5: sort preserves the pieces: after sort the list has the length and,
\* for each kind, the count it had before.
C5_SortPreservesPieces ==
    phase = "sorted"
        => /\ Len(pieces) = Len(input)
           /\ \A k \in Kinds : Count(pieces, k) = Count(input, k)

\* C6: after sort the King is still at index 0, every Queen comes before
\* every Rook, and every Rook before every Knight and every Bishop.
C6_SortOrdersByPower ==
    phase = "sorted"
        => /\ At(pieces, 0) = "K"
           /\ Before(pieces, "Q", "R")
           /\ Before(pieces, "R", "H")
           /\ Before(pieces, "R", "B")

\* C7: removeUsedPieces, given a result whose pieces are a sub-multiset of
\* the list (entries with an empty vector included), completes and leaves,
\* for each kind, the input count minus the squares the result holds for it.
C7_RemovesExactlyUsed ==
    /\ phase # "removeError"
    /\ phase = "removed"
          => \A k \in Kinds : Count(pieces, k) = Count(input, k) - Held(result, k)

C7_Witness ==
    /\ phase = "removed"
    /\ SizeOf(result) >= 2
    /\ \E k \in DOMAIN result : result[k] = <<>>
    /\ \E k \in DOMAIN result : Len(result[k]) >= 2
    /\ pieces # <<>>
    /\ input # SortAsc(input)

(***************************************************************************)
(* Properties of isStalemate (SpecValidator)                               *)
(***************************************************************************)
\* the king adjacency less the attack set of every (kind, square) pair
Unattacked(b, king, m) ==
    getAdjacentLocs(king) \ UNION {pieceAttackingLocs(b, pr[1], pr[2]) : pr \in PairsOf(m)}

\* C3: isStalemate returns true iff the king adjacency less every pair's
\* attack set is exactly {kingSquare}; false when a neighbour remains and
\* false when the king's own square has been removed.
C3_StalemateIffOnlyKingLeft ==
    LET left == Unattacked(board, kingLoc, result)
        v    == isStalemate(board, kingLoc, result)
    IN  /\ v <=> (left = {kingLoc})
        /\ (left \ {kingLoc} # {}) => ~v
        /\ (kingLoc \notin left) => ~v

\* one square is left and it is not the king's: the validator must refuse
C3_Witness ==
    LET left == Unattacked(board, kingLoc, result)
    IN  /\ Cardinality(left) = 1 /\ kingLoc \notin left
        /\ ~isStalemate(board, kingLoc, result)
        /\ SizeOf(result) = 2

\* the cells the attack computation of a piece reads: the rays of a rook,
\* bishop or queen to the board edge, the neighbours of a king, none for a
\* knight; never the piece's own cell
FullRays(loc, dirs) ==
    {<<loc[1] + n * dir[1], loc[2] + n * dir[2]>> : dir \in dirs, n \in 1 .. BoardSize} \cap Squares

Orthogonal == {<<1, 0>>, <<-1, 0>>, <<0, 1>>, <<0, -1>>}

Diagonal == {<<1, 1>>, <<1, -1>>, <<-1, 1>>, <<-1, -1>>}

CellsRead(kind, loc) ==
    CASE kind = "R" -> FullRays(loc, Orthogonal)
      [] kind = "B" -> FullRays(loc, Diagonal)
      [] kind = "Q" -> FullRays(loc, Orthogonal \cup Diagonal)
      [] kind = "K" -> getAdjacentLocs(loc) \ {loc}
      [] kind = "H" -> {}

CellsReadBy(m) == UNION {CellsRead(pr[1], pr[2]) : pr \in PairsOf(m)}

\* C4 as stated: with the same king square and placement, isStalemate
\* returns the same value whatever the board cells hold.
C4_PureOfArguments ==
    [][(kingLoc' = kingLoc /\ result' = result)
        => (isStalemate(board', kingLoc', result') <=> isStalemate(board, kingLoc, result))]_vars

\* C4 amended: with the same king square and placement, isStalemate returns
\* the same value whenever the boards agree on the cells on the rays of the
\* placed rooks, bishops and queens and around the placed kings.
C4_SameOnCellsRead ==
    [][(kingLoc' = kingLoc /\ result' = result
            /\ \A sq \in CellsReadBy(result) : board'[sq] = board[sq])
        => (isStalemate(board', kingLoc', result') <=> isStalemate(board, kingLoc, result))]_vars

\* a stalemate on a board that differs from the cleared board only on cells
\* the validator does not read: clearBoard leaves the verdict as it is
C4_Witness ==
    /\ isStalemate(board, kingLoc, result)
    /\ board[kingLoc] = "K"
    /\ SquaresOf(result) \subseteq Occupied(board) /\ result # EmptyMap
    /\ \A sq \in CellsReadBy(result) : board[sq] = Empty

(***************************************************************************)
(* Properties of pieceAttackingLocs (SpecAttack)                           *)
(***************************************************************************)
Along(loc, dir, n) == <<loc[1] + n * dir[1], loc[2] + n * dir[2]>>

\* the empty squares reached from loc along dirs before the board edge or
\* the first occupied square
Reach(b, loc, dirs) ==
    {Along(loc, x[1], x[2]) : x \in {y \in dirs \X (1 .. BoardSize) :
        \A k \in 1 .. y[2] : inBounds(Along(loc, y[1], k)) /\ b[Along(loc, y[1], k)] = Empty}}

\* the first occupied square of a ray and every square behind it
Shadow(b, loc, dirs) ==
    {Along(loc, x[1], x[2]) : x \in {y \in dirs \X (1 .. BoardSize) :
        /\ inBounds(Along(loc, y[1], y[2]))
        /\ \E k \in 1 .. y[2] : b[Along(loc, y[1], k)] # Empty}}

RaysOf(kind) ==
    CASE kind = "R" -> Orthogonal
      [] kind = "B" -> Diagonal
      [] kind = "Q" -> Orthogonal \cup Diagonal

\* C8: for a rook, bishop or queen pieceAttackingLocs returns exactly the
\* empty squares reached along its rays up to the board edge or the first
\* occupied square; that square and the squares behind it are not returned;
\* the queen's set is the union of the rook's and the bishop's.
C8_SlidersStopAtFirstOccupied ==
    (phase = "attacked" /\ probe.piece \in {"R", "B", "Q"})
        => /\ attacked = Reach(board, probe.loc, RaysOf(probe.piece))
           /\ attacked \cap Shadow(board, probe.loc, RaysOf(probe.piece)) = {}
           /\ probe.piece = "Q"
                 => attacked = pieceAttackingLocs(board, "R", probe.loc)
                                   \cup pieceAttackingLocs(board, "B", probe.loc)

\* a queen with a blocked ray: a square behind the blocker is in bounds
C8_Witness ==
    /\ phase = "attacked" /\ probe.piece = "Q"
    /\ Cardinality(Shadow(board, probe.loc, RaysOf("Q"))) >= 3
    /\ attacked # {}

(***************************************************************************)
(* Properties of the board and the result during a run (Spec)              *)
(***************************************************************************)
\* the candidate the innermost frame tried before the one it is at
PreviousLoc == At(moves[TopPiece], Top.i - 1)

\* C11: from a board that holds only the king, in every state of the search
\* and of leftover placement a cell is non-empty iff it is the king square or
\* a square of the result, and a cell other than the king square holds the
\* kind its square is recorded under.
C11_BoardMatchesResult ==
    \A sq \in Squares :
        /\ board[sq] # Empty <=> (sq = kingLoc \/ sq \in SquaresOf(result))
        /\ (sq # kingLoc /\ board[sq] # Empty) => <<board[sq], sq>> \in PairsOf(result)

\* the search has placed a piece on a square and undone it (the square is
\* still in the exclusion set), and other pieces stand on the board
C11_Witness ==
    /\ phase = "search" /\ stack # <<>> /\ Top.at = "loop" /\ Top.i >= 1
    /\ PreviousLoc \in exclusion \ (getAdjacentLocs(kingLoc) \cup SquaresOf(result))
    /\ board[PreviousLoc] = Empty
    /\ SizeOf(result) >= 2

\* the cells that hold a King
KingCells == {sq \in Squares : board[sq] = "K"}

\* C12 as stated: exactly one cell holds King in every state of a run, and
\* no square is ever recorded for the King entry of the piece list.
C12_OneKingCell == Cardinality(KingCells) = 1 /\ Held(result, "K") = 0

\* C12 amended: the king square holds King in every state of a run, and the
\* other cells that hold King are the squares recorded under King in the
\* result, at most one: the King entry of the piece list is placed as a piece.
C12_KingCellsAreRecorded ==
    /\ board[kingLoc] = "K"
    /\ KingCells \ {kingLoc} = {sq \in Squares : <<"K", sq>> \in PairsOf(result)}
    /\ Held(result, "K") <= 1

\* the run is over with the list's King two squares away from the king and
\* other pieces placed after it
C12_Witness ==
    /\ phase = "done" /\ Cardinality(KingCells) = 2 /\ Held(result, "K") = 1
    /\ SizeOf(result) >= 3

(***************************************************************************)
(* Properties of the calls of placePieceGreedy (Spec)                      *)
(***************************************************************************)
\* the innermost call returns false in this step
ReturnsFalse == phase = "search" /\ stack # <<>> /\ stack' = Pop /\ ret' = "false"

\* C13: when a call of placePieceGreedy returns false, the board cells and
\* the (kind, square) pairs of the result are those of its entry.
C13_FalseReturnRestores ==
    [][ReturnsFalse => (board' = Top.board0 /\ PairsOf(result') = Top.pairs0)]_vars

\* a call below the root, entered with pieces already placed, has placed and
\* undone its last candidate (the square is still in the exclusion set) and
\* is about to return false with board and result as it found them
C13_Witness ==
    /\ phase = "search" /\ Len(stack) >= 2 /\ Top.at = "loop"
    /\ Top.i = Len(moves[TopPiece]) /\ Top.i >= 1
    /\ PreviousLoc \in exclusion \ (getAdjacentLocs(kingLoc) \cup SquaresOf(result))
    /\ Top.pairs0 # {}
    /\ board = Top.board0 /\ PairsOf(result) = Top.pairs0

\* the innermost call returns true in this step
ReturnsTrue == phase = "search" /\ stack # <<>> /\ stack' = Pop /\ ret' = "true"

\* the placement a frame made before its recursive call is recorded in the
\* result m and stands on the board b
Standing(f, b, m) ==
    LET piece == At(pieces, f.pieceIndex)
        loc == At(moves[piece], f.i)
    IN  <<piece, loc>> \in PairsOf(m) /\ b[loc] = piece

\* C14: whenever a call of placePieceGreedy returns true, the result it leaves
\* satisfies isStalemate on the board it leaves, the return changes neither,
\* what the call found at entry and what every waiting caller placed is still
\* recorded and standing; and a call entered with the validator holding
\* returns true at once, placing nothing.
C14_TrueReturnIsStalemate ==
    [][/\ ReturnsTrue =>
            /\ isStalemate(board', kingLoc', result')
            /\ board' = board /\ result' = result
            /\ Top.pairs0 \subseteq PairsOf(result')
            /\ \A n \in 1 .. Len(stack') : Standing(stack'[n], board', result')
       /\ (phase = "search" /\ stack # <<>> /\ Top.at = "entry"
                /\ isStalemate(board, kingLoc, result)) =>
            (ReturnsTrue /\ board' = board /\ result' = result)
      ]_vars

\* true is on its way up: two callers still wait, each with its piece on the
\* board, and the result is a stalemate
C14_Witness ==
    /\ phase = "search" /\ ret = "true" /\ Len(stack) >= 2
    /\ \A n \in 1 .. Len(stack) : stack[n].at = "called" /\ Standing(stack[n], board, result)
    /\ isStalemate(board, kingLoc, result)

(***************************************************************************)
(* Properties of greedyHelper (SpecRanker)                                 *)
(***************************************************************************)
\* the squares outside the adjacency of the king
Outside == Squares \ getAdjacentLocs(kingLoc)

\* how many squares adjacent to the king a piece of the ranked kind attacks
\* from sq on the board
Covered(sq) ==
    Cardinality(getAdjacentLocs(kingLoc) \cap pieceAttackingLocs(board, probe.piece, sq))

\* the highest number covered from a square outside the adjacency
MostCovered ==
    LET scores == {Covered(sq) : sq \in Outside}
    IN  CHOOSE m \in scores : \A n \in scores : n <= m

\* the squares greedyHelper returned
Ranked == moves[probe.piece]

RowMajorBefore(a, b) == a[1] < b[1] \/ (a[1] = b[1] /\ a[2] < b[2])

\* C15: greedyHelper returns exactly the squares outside the adjacency from
\* which the kind covers the highest number of adjacency squares on the
\* current board, each once, in row-major order.
C15_RankedAreTheBest ==
    phase = "ranked" =>
        LET most == MostCovered
        IN  /\ {Ranked[n] : n \in 1 .. Len(Ranked)} = {sq \in Outside : Covered(sq) = most}
            /\ \A m, n \in 1 .. Len(Ranked) : m < n => RowMajorBefore(Ranked[m], Ranked[n])

\* a ranking on a board with two blockers: a positive maximum, reached from
\* several squares and missed from others
C15_Witness ==
    /\ phase = "ranked" /\ Cardinality(Occupied(board) \ {kingLoc}) >= 2
    /\ MostCovered >= 2 /\ Len(Ranked) >= 2
    /\ \E sq \in Outside : Covered(sq) >= 1 /\ Covered(sq) < MostCovered

\* C16: if no square outside the adjacency covers an adjacency square,
\* greedyHelper returns an empty result.
C16_EmptyWhenNothingCovered ==
    (phase = "ranked" /\ MostCovered = 0) => Ranked = <<>>

====
